---- MODULE Spec2Model ----
(***************************************************************************)
(* Model of ekkagra/k8s_python: the Pod and Deployment entities of         *)
(* src/model.py and the PodManager and DeploymentManager of                *)
(* src/class_demo.py, run against a Kubernetes API server that holds the   *)
(* resources of one namespace and pushes change events to an open watch.   *)
(*                                                                         *)
(*   Spec       the entities against a server that emits one event per     *)
(*              change of a resource (ADDED, MODIFIED, DELETED)            *)
(*   SpecWatch  the watch loops against an unconstrained event stream:     *)
(*              any well-typed event may arrive, in any order              *)
(*   SpecMerge  BaseObject.merge_partial_manifest applied repeatedly to    *)
(*              manifests drawn from a bounded set of documents            *)
(***************************************************************************)
EXTENDS Integers, Sequences, FiniteSets, TLC

VARIABLES
    kind,       \* class of the entity: Pod, Deployment, PodManager, DeploymentManager
    mode,       \* "direct": the caller invokes the methods; "with": a with statement
    pc,         \* position of the caller
    manifest,   \* self.manifest (a document)
    partial,    \* the partial manifest handed to merge_partial_manifest (SpecMerge)
    merged,     \* results of the successive merge_partial_manifest calls (SpecMerge)
    model,      \* self.model (Pod, Deployment), self.pod / self.deployment (managers)
    srv,        \* the server: resource name -> resource, or Absent
    nextUid,    \* next uid the server assigns
    nEvents,    \* number of change events emitted so far
    sub,        \* the watch subscription: [open, buf], buf = events not yet delivered
    waitOp,     \* the watch loop of the last create, ready or delete ("none": no loop)
    inspected,  \* events the loop of waitOp has taken from the stream, in order
    readyRes,   \* how the readiness wait of the last create / ready ended ("none": no wait)
    delRes,     \* how the deletion wait of the last delete ended ("none": no wait)
    lastOp,     \* the method that returned or raised last
    ret,        \* its return value
    exc,        \* the error that reached the caller ("none" if it returned)
    reqGone,    \* the resource was absent on the server when delete was last invoked
    bodyErr,    \* the error raised by the body of the with statement
    calls,      \* remote calls issued by the caller's current statement, in order
    nUse        \* methods the caller has invoked, directly or in the body of a with statement

vars == <<kind, mode, pc, manifest, partial, merged, model, srv, nextUid, nEvents,
          sub, waitOp, inspected, readyRes, delRes, lastOp, ret, exc, reqGone,
          bodyErr, calls, nUse>>

(***************************************************************************)
(* Bounds.                                                                 *)
(***************************************************************************)
MaxEvents == 3      \* change events the server emits in one behaviour
MaxUid == 3         \* uids the server assigns in one behaviour
MaxCalls == 3       \* methods the caller invokes directly in one behaviour
MaxUse == 1         \* read/exec/logs uses in the body of a with statement
MaxStream == 2      \* events of the unconstrained stream (SpecWatch)
MaxListLen == 1     \* length of the sequences in the documents of SpecMerge

(***************************************************************************)
(* Documents: manifests as tagged trees.  A dict maps keys to documents, a *)
(* list is a sequence of strings, str and int are leaves, none is None.    *)
(* undef is the "no value under this key" of jsonmerge, error the          *)
(* exception it raises.                                                    *)
(***************************************************************************)
None == [t |-> "none", v |-> <<>>]
Undef == [t |-> "undef", v |-> <<>>]
MergeError == [t |-> "error", v |-> <<>>]
Str(s) == [t |-> "str", v |-> s]
Num(i) == [t |-> "int", v |-> i]
List(s) == [t |-> "list", v |-> s]
Dict(f) == [t |-> "dict", v |-> f]
EmptyDict == Dict(<<>>)

\* all dicts with keys among ks and values among vals
DictsOver(ks, vals) == UNION {{Dict(f) : f \in [d -> vals]} : d \in SUBSET ks}

\* Python truthiness of a document
Truthy(d) ==
    CASE d.t = "none" -> FALSE
      [] d.t = "undef" -> FALSE
      [] d.t = "str" -> d.v # ""
      [] d.t = "int" -> d.v # 0
      [] d.t = "list" -> Len(d.v) > 0
      [] d.t = "dict" -> DOMAIN d.v # {}
      [] OTHER -> FALSE

\* dict.get(k, default)
DictGet(d, k, default) == IF k \in DOMAIN d.v THEN d.v[k] ELSE default

(***************************************************************************)
(* jsonmerge.merge(base, head) with the default schema: a head that is an  *)
(* object is merged key by key into the base (objectMerge), every other    *)
(* head replaces the base (overwrite).                                     *)
(***************************************************************************)
RECURSIVE merge_append(_, _)
merge_append(base, head) ==
    IF head.t = "dict"
    THEN IF base.t \notin {"undef", "dict"}
         THEN MergeError
         ELSE LET b == IF base.t = "undef" THEN <<>> ELSE base.v
                  ks == DOMAIN b \cup DOMAIN head.v
                  r == [k \in ks |->
                          IF k \in DOMAIN head.v
                          THEN merge_append(IF k \in DOMAIN b THEN b[k] ELSE Undef, head.v[k])
                          ELSE b[k]]
              IN  IF \E k \in ks : r[k].t = "error" THEN MergeError ELSE Dict(r)
    ELSE IF head.t = "list" /\ base.t = "list"
         THEN List(base.v \o head.v)
         ELSE head

RECURSIVE merge(_, _)
merge(base, head) ==
    IF head.t = "dict"
    THEN IF base.t \notin {"undef", "dict"}
         THEN MergeError
         ELSE LET b == IF base.t = "undef" THEN <<>> ELSE base.v
                  ks == DOMAIN b \cup DOMAIN head.v
                  r == [k \in ks |->
                          IF k \in DOMAIN head.v
                          THEN merge(IF k \in DOMAIN b THEN b[k] ELSE Undef, head.v[k])
                          ELSE b[k]]
              IN  IF \E k \in ks : r[k].t = "error" THEN MergeError ELSE Dict(r)
    ELSE head

(***************************************************************************)
(* The documents of SpecMerge: three levels of mappings over leaves.       *)
(***************************************************************************)
DocLeaves == {None, Str("l1")} \cup {List([i \in 1..n |-> "a"]) : n \in 0..MaxListLen}
DocInner == DocLeaves \cup DictsOver({"app"}, DocLeaves)
DocMid == DocLeaves \cup DictsOver({"labels"}, DocInner)
DocTop == DictsOver({"metadata", "spec"}, DocMid)

(***************************************************************************)
(* The manifests handed to the constructors.                               *)
(***************************************************************************)
TargetName == "sample-pod"
OtherName == "other"
Names == {TargetName, OtherName}
Namespace == "default"
Replicas == 3

NameVals == {None, Str(""), Str(TargetName)}
NamespaceVals == {None, Str(""), Str(Namespace)}
MetaDicts ==
    {EmptyDict}
    \cup {Dict([k \in {"name"} |-> n]) : n \in NameVals}
    \cup {Dict([k \in {"namespace"} |-> s]) : s \in NamespaceVals}
    \cup {Dict([k \in {"name", "namespace"} |-> IF k = "name" THEN n ELSE s]) :
             n \in NameVals, s \in NamespaceVals}
SpecDoc == Dict([k \in {"replicas"} |-> Num(Replicas)])
Bodies ==
    {Dict([k \in {"spec"} |-> SpecDoc])}
    \cup {Dict([k \in {"metadata", "spec"} |-> IF k = "metadata" THEN md ELSE SpecDoc]) :
             md \in MetaDicts \cup {None}}
Partials == {None, EmptyDict} \cup {Dict([k \in {"metadata"} |-> md]) : md \in MetaDicts}

\* the manifest names a resource: metadata.name and metadata.namespace are
\* non-empty strings
HasIdentity(m) ==
    /\ m.t = "dict"
    /\ "metadata" \in DOMAIN m.v
    /\ m.v["metadata"].t = "dict"
    /\ \A k \in {"name", "namespace"} :
          /\ k \in DOMAIN m.v["metadata"].v
          /\ m.v["metadata"].v[k].t = "str"
          /\ m.v["metadata"].v[k].v # ""

(***************************************************************************)
(* Typed models.  cls is the class of the value held in self.model (or     *)
(* self.pod, self.deployment): None, the dict given to a manager, or a     *)
(* V1Pod / V1Deployment; metadata tells whether its metadata is set.  The  *)
(* spec of a manifest is reduced to spec.replicas; 0 stands for no spec.   *)
(***************************************************************************)
NoModel == [cls |-> "None", metadata |-> FALSE, name |-> "", namespace |-> "",
            uid |-> 0, replicas |-> 0]
IsDeployment == kind \in {"Deployment", "DeploymentManager"}
IsEntity == kind \in {"Pod", "Deployment"}
ModelClass == IF IsDeployment THEN "V1Deployment" ELSE "V1Pod"
\* client.V1Pod(), client.V1Deployment(): every attribute None
EmptyModel == [NoModel EXCEPT !.cls = ModelClass]
\* self.model.metadata.name and the like raise AttributeError unless this holds
HasMetadata(m) == m.cls \in {"V1Pod", "V1Deployment"} /\ m.metadata

StrOf(d) == IF d.t = "str" THEN d.v ELSE ""
ManifestName(m) == StrOf(DictGet(DictGet(m, "metadata", EmptyDict), "name", None))
ManifestNamespace(m) == StrOf(DictGet(DictGet(m, "metadata", EmptyDict), "namespace", None))
ManifestReplicas(m) ==
    LET r == DictGet(DictGet(m, "spec", EmptyDict), "replicas", None)
    IN  IF r.t = "int" THEN r.v ELSE 0

deserialize(m) ==
    [cls |-> ModelClass, metadata |-> TRUE, name |-> ManifestName(m),
     namespace |-> ManifestNamespace(m), uid |-> 0, replicas |-> ManifestReplicas(m)]

\* the test of the constructors on the merged manifest
IdentityMissing_both(md) ==
    ~Truthy(DictGet(md, "name", None)) /\ ~Truthy(DictGet(md, "namespace", None))

IdentityMissing(md) ==
    ~Truthy(DictGet(md, "name", None)) \/ ~Truthy(DictGet(md, "namespace", None))

(***************************************************************************)
(* The server and its change events.                                       *)
(***************************************************************************)
Absent == [uid |-> 0, phase |-> "None", available_replicas |-> 0]
Exists(n) == srv[n].uid # 0
\* a resource as the server stores it right after creation
NewResource(u) ==
    [uid |-> u, phase |-> IF IsDeployment THEN "None" ELSE "Pending", available_replicas |-> 0]
Snapshot(n) ==
    [name |-> n, uid |-> srv[n].uid, phase |-> srv[n].phase,
     available_replicas |-> srv[n].available_replicas]
Event(type, object) == [type |-> type, object |-> object]
EventTypes == {"ADDED", "MODIFIED", "DELETED"}

\* the server pushes a change event to the open subscription
Emit(e) ==
    /\ nEvents < MaxEvents
    /\ nEvents' = nEvents + 1
    /\ sub' = IF sub.open THEN [sub EXCEPT !.buf = Append(@, e)] ELSE sub

Closed == [open |-> FALSE, buf |-> <<>>]

(***************************************************************************)
(* Initial state: nothing constructed; the namespace holds one resource    *)
(* of another owner, ready.                                                *)
(***************************************************************************)
Kinds == {"Pod", "Deployment", "PodManager", "DeploymentManager"}

InitRest ==
    /\ merged = <<>>
    /\ model = NoModel
    /\ nextUid = 2
    /\ nEvents = 0
    /\ sub = Closed
    /\ waitOp = "none"
    /\ inspected = <<>>
    /\ readyRes = "none"
    /\ delRes = "none"
    /\ lastOp = "none"
    /\ ret = "none"
    /\ exc = "none"
    /\ reqGone = FALSE
    /\ bodyErr = "none"
    /\ calls = <<>>
    /\ nUse = 0

Init ==
    /\ kind \in Kinds
    /\ mode \in {"direct", "with"}
    /\ (kind = "DeploymentManager" => mode = "direct")
    /\ pc = "new"
    /\ manifest = EmptyDict
    /\ srv = [n \in Names |->
                IF n = OtherName
                THEN [uid |-> 1,
                      phase |-> IF IsDeployment THEN "None" ELSE "Running",
                      available_replicas |-> IF IsDeployment THEN Replicas ELSE 0]
                ELSE Absent]
    /\ partial = None
    /\ InitRest

entityVars == <<kind, mode>>
mergeVars == <<partial, merged>>
srvVars == <<srv, nextUid, nEvents>>
watchVars == <<sub, waitOp, inspected, readyRes, delRes>>
resultVars == <<lastOp, ret, exc, reqGone>>
withVars == <<bodyErr, nUse>>

Returns(op, r, e) == lastOp' = op /\ ret' = r /\ exc' = e

(***************************************************************************)
(* Pod.__init__, Deployment.__init__                                       *)
(***************************************************************************)
Construct(body, partial_manifest) ==
    /\ pc = "new"
    /\ IsEntity
    /\ LET m0 == IF body = None THEN EmptyDict ELSE body
           m1 == IF Truthy(partial_manifest) THEN merge(m0, partial_manifest) ELSE m0
           md == DictGet(m1, "metadata", EmptyDict)
       IN  IF m1.t = "error"
           THEN /\ manifest' = m0
                /\ pc' = "invalid"
                /\ Returns("__init__", "none", "BaseInstanceError")
                /\ UNCHANGED model
           ELSE /\ manifest' = m1
                /\ IF md.t # "dict"
                   THEN /\ pc' = "invalid"
                        /\ Returns("__init__", "none", "AttributeError")
                        /\ UNCHANGED model
                   ELSE IF IdentityMissing(md)
                   THEN /\ pc' = "invalid"
                        /\ Returns("__init__", "none", "Exception")
                        /\ UNCHANGED model
                   ELSE /\ model' = deserialize(m1)
                        /\ pc' = IF mode = "with" THEN "with_enter" ELSE "idle"
                        /\ Returns("__init__", "none", "none")
    /\ UNCHANGED <<entityVars, mergeVars, srvVars, watchVars, reqGone, withVars, calls>>

(***************************************************************************)
(* PodManager.__init__, DeploymentManager.__init__: the manifest is kept   *)
(* as given.                                                               *)
(***************************************************************************)
ManagerConstruct(body) ==
    /\ pc = "new"
    /\ ~IsEntity
    /\ manifest' = body
    /\ model' = [NoModel EXCEPT !.cls = "dict"]
    /\ pc' = IF mode = "with" THEN "with_enter" ELSE "idle"
    /\ Returns("__init__", "none", "none")
    /\ UNCHANGED <<entityVars, mergeVars, srvVars, watchVars, reqGone, withVars, calls>>

(***************************************************************************)
(* BaseObject.merge_partial_manifest                                       *)
(***************************************************************************)
merge_partial_manifest ==
    /\ pc = "merge"
    /\ Len(merged) < 2
    /\ LET m == merge(manifest, partial)
       IN  IF m.t = "error"
           THEN /\ Returns("merge_partial_manifest", "none", "BaseInstanceError")
                /\ pc' = "merge_failed"
                /\ UNCHANGED <<manifest, merged>>
           ELSE /\ manifest' = m
                /\ merged' = Append(merged, m)
                /\ Returns("merge_partial_manifest", "None", "none")
                /\ pc' = "merge"
    /\ UNCHANGED <<entityVars, partial, model, srvVars, watchVars, reqGone, withVars, calls>>

InitMerge ==
    /\ kind \in {"Pod", "Deployment"}
    /\ mode = "direct"
    /\ pc = "merge"
    /\ manifest \in DocTop
    /\ srv = [n \in Names |-> Absent]
    /\ partial \in DocTop
    /\ InitRest

SpecMerge == InitMerge /\ [][merge_partial_manifest]_vars

(***************************************************************************)
(* What one event does to each watch loop.                                 *)
(***************************************************************************)
\* Pod.create: the two tests of the loop, in the order of the code
Pod_create_event_anyname(e, m) ==
    IF e.object.phase = "Running"
    THEN "Ready"
    ELSE IF e.type = "DELETED" /\ e.object.name = m.name
    THEN "Deleted"
    ELSE "continue"

Pod_create_event(e, m) ==
    IF e.object.phase = "Running" /\ e.object.name = m.name
    THEN "Ready"
    ELSE IF e.type = "DELETED" /\ e.object.name = m.name
    THEN "Deleted"
    ELSE "continue"

\* Deployment.create, were it to match events by the uid of the model
Deployment_create_event_byuid(e, m) ==
    IF e.object.available_replicas = m.replicas /\ e.object.uid = m.uid
    THEN "Ready"
    ELSE IF e.type = "DELETED" /\ e.object.uid = m.uid
    THEN "Deleted"
    ELSE "continue"

\* Deployment.create
Deployment_create_event(e, m) ==
    IF e.object.available_replicas = m.replicas /\ e.object.name = m.name
    THEN "Ready"
    ELSE IF e.type = "DELETED" /\ e.object.name = m.name
    THEN "Deleted"
    ELSE "continue"

\* PodManager.ready
PodManager_ready_event(e, m) ==
    IF e.object.phase = "Running" /\ e.object.name = m.name
    THEN "Ready"
    ELSE IF e.type = "DELETED"
    THEN "Deleted"
    ELSE "continue"

\* DeploymentManager.ready
DeploymentManager_ready_event(e, m) ==
    IF e.object.name = m.name /\ e.object.available_replicas = m.replicas
    THEN "Ready"
    ELSE IF e.type = "DELETED"
    THEN "Deleted"
    ELSE "continue"

ReadyEvent(e, m) ==
    CASE kind = "Pod" -> Pod_create_event(e, m)
      [] kind = "Deployment" -> Deployment_create_event(e, m)
      [] kind = "PodManager" -> PodManager_ready_event(e, m)
      [] kind = "DeploymentManager" -> DeploymentManager_ready_event(e, m)

\* the value a readiness wait returns for each way of ending
ReadyReturn_fallthrough(res) ==
    CASE res = "Ready" -> "True"
      [] res = "Deleted" -> "False"
      [] res = "TimedOut" -> IF IsEntity THEN "True" ELSE "None"

ReadyReturn(res) ==
    CASE res = "Ready" -> "True"
      [] res = "Deleted" -> "False"
      [] res = "TimedOut" -> IF IsEntity THEN "False" ELSE "None"

\* the test of the deletion loop, were it to match events by name
delete_event_byname(e, m) == e.type = "DELETED" /\ e.object.name = m.name

\* Pod.delete, Deployment.delete: the test of the loop
delete_event(e, m) == e.type = "DELETED" /\ e.object.uid = m.uid

\* the model after the deletion wait has seen its event: Pod.delete resets
\* it, Deployment.delete returns without touching it
ModelAfterConfirmedDelete(m) == IF kind = "Pod" THEN EmptyModel ELSE m

\* what __exit__ returns: Pod and Deployment return None, PodManager
\* returns the True of its delete
ExitReturn == IF kind = "PodManager" THEN "True" ELSE "None"

\* the error the with statement leaves to its caller once __exit__ has
\* returned r: a true value swallows the error of the body
AfterExit(r) == IF r = "True" THEN "none" ELSE bodyErr

(***************************************************************************)
(* The server acts: a resource makes progress, is removed, or another      *)
(* client creates one.                                                     *)
(***************************************************************************)
\* the caller is at work: the entity is constructed and a method or a with
\* statement is under way or still to come
Live ==
    /\ pc \notin {"new", "invalid", "done", "enter_failed", "merge", "merge_failed"}
    /\ ~(mode = "direct" /\ pc = "idle" /\ nUse >= MaxCalls)

\* the server brings a resource forward: a pod starts running; a deployment
\* reports more of its replicas available
ServerProgress(n) ==
    /\ Live
    /\ Exists(n)
    /\ \E r \in [uid : {srv[n].uid}, phase : {"None", "Running"},
                 available_replicas : 0..Replicas] :
          /\ IF IsDeployment
             THEN /\ r.phase = "None"
                  /\ r.available_replicas > srv[n].available_replicas
             ELSE srv[n].phase = "Pending" /\ r.phase = "Running"
                  /\ r.available_replicas = 0
          /\ srv' = [srv EXCEPT ![n] = r]
          /\ Emit(Event("MODIFIED", [name |-> n, uid |-> r.uid, phase |-> r.phase,
                                     available_replicas |-> r.available_replicas]))
    /\ UNCHANGED <<entityVars, pc, manifest, mergeVars, model, nextUid, waitOp,
                   inspected, readyRes, delRes, resultVars, withVars, calls>>

ServerRemove(n) ==
    /\ Live
    /\ Exists(n)
    /\ srv' = [srv EXCEPT ![n] = Absent]
    /\ Emit(Event("DELETED", Snapshot(n)))
    /\ UNCHANGED <<entityVars, pc, manifest, mergeVars, model, nextUid, waitOp,
                   inspected, readyRes, delRes, resultVars, withVars, calls>>

ExternalCreate(n) ==
    /\ Live
    /\ ~Exists(n)
    /\ nextUid <= MaxUid
    /\ srv' = [srv EXCEPT ![n] = NewResource(nextUid)]
    /\ nextUid' = nextUid + 1
    /\ Emit(Event("ADDED", [name |-> n, uid |-> nextUid, phase |-> NewResource(nextUid).phase,
                            available_replicas |-> 0]))
    /\ UNCHANGED <<entityVars, pc, manifest, mergeVars, model, waitOp,
                   inspected, readyRes, delRes, resultVars, withVars, calls>>

(***************************************************************************)
(* The caller's side.                                                      *)
(***************************************************************************)
\* the remote calls already issued when a method is entered: a with
\* statement is one statement of the caller, a direct method call starts anew
CallsBefore == IF mode = "with" THEN calls ELSE <<>>

\* a method may be invoked: between two calls, or where the with statement
\* invokes it
MayCall(withPc) ==
    \/ mode = "direct" /\ pc = "idle" /\ nUse < MaxCalls
    \/ mode = "with" /\ pc = withPc

\* where an error raised by a method leaves the caller
AfterRaise ==
    CASE mode = "direct" -> "idle"
      [] pc = "with_enter" -> "enter_failed"
      [] pc = "body" -> "with_exit"
      [] pc = "with_exit" -> "done"

\* the server creates the resource: the name is valid and free, the
\* manifest has a spec
Creatable(n, replicas) == n \in Names /\ ~Exists(n) /\ replicas > 0

(***************************************************************************)
(* Pod.create, Deployment.create up to the return of the create call       *)
(***************************************************************************)
create(wait_for_completion) ==
    /\ IsEntity
    /\ MayCall("with_enter")
    /\ nextUid <= MaxUid
    /\ mode = "with" => wait_for_completion
    /\ IF ~HasMetadata(model)
       THEN /\ Returns("create", "none", "AttributeError")
            /\ pc' = AfterRaise
            /\ readyRes' = "none"
            /\ waitOp' = "none" /\ inspected' = <<>>
            /\ UNCHANGED <<model, srvVars, sub, delRes>> /\ calls' = CallsBefore
       ELSE /\ calls' = Append(CallsBefore, "create")
            /\ IF ~Creatable(model.name, model.replicas)
               THEN /\ Returns("create", "none", "ApiError")
                    /\ pc' = AfterRaise
                    /\ readyRes' = "none"
                    /\ waitOp' = "none" /\ inspected' = <<>>
                    /\ UNCHANGED <<model, srvVars, sub, delRes>>
               ELSE /\ srv' = [srv EXCEPT ![model.name] = NewResource(nextUid)]
                    /\ nextUid' = nextUid + 1
                    /\ model' = [model EXCEPT !.uid = nextUid]
                    /\ UNCHANGED <<nEvents, sub, delRes>>
                    /\ IF wait_for_completion
                       THEN /\ pc' = "create_open"
                            /\ waitOp' = "create"
                            /\ inspected' = <<>>
                            /\ readyRes' = "waiting"
                            /\ Returns("create", "none", "none")
                       ELSE /\ pc' = "idle"
                            /\ Returns("create", "True", "none")
                            /\ readyRes' = "none"
                            /\ waitOp' = "none" /\ inspected' = <<>>
    /\ UNCHANGED <<entityVars, manifest, mergeVars, reqGone, bodyErr>>
    /\ nUse' = IF mode = "direct" THEN nUse + 1 ELSE nUse

(***************************************************************************)
(* PodManager.create, DeploymentManager.create; in a with statement        *)
(* PodManager.__enter__ goes on to ready()                                 *)
(***************************************************************************)
manager_create ==
    /\ ~IsEntity
    /\ MayCall("with_enter")
    /\ nextUid <= MaxUid
    /\ calls' = Append(CallsBefore, "create")
    /\ LET n == IF model.cls = "dict" THEN ManifestName(manifest) ELSE model.name
           r == IF model.cls = "dict" THEN ManifestReplicas(manifest) ELSE model.replicas
       IN  IF ~Creatable(n, r)
           THEN /\ Returns("create", "none", "ApiError")
                /\ pc' = AfterRaise
                /\ readyRes' = "none"
                /\ waitOp' = "none" /\ inspected' = <<>>
                /\ UNCHANGED <<model, srvVars, sub, delRes>>
           ELSE /\ srv' = [srv EXCEPT ![n] = NewResource(nextUid)]
                /\ nextUid' = nextUid + 1
                /\ model' = [cls |-> ModelClass, metadata |-> TRUE, name |-> n,
                             namespace |-> Namespace, uid |-> nextUid,
                             replicas |-> r]
                /\ UNCHANGED <<nEvents, sub, delRes>>
                /\ IF mode = "with"
                   THEN /\ pc' = "create_open"
                        /\ waitOp' = "ready"
                        /\ inspected' = <<>>
                        /\ readyRes' = "waiting"
                        /\ Returns("ready", "none", "none")
                   ELSE /\ pc' = "idle"
                        /\ Returns("create", "None", "none")
                        /\ readyRes' = "none"
                        /\ waitOp' = "none" /\ inspected' = <<>>
    /\ UNCHANGED <<entityVars, manifest, mergeVars, reqGone, bodyErr>>
    /\ nUse' = IF mode = "direct" THEN nUse + 1 ELSE nUse

(***************************************************************************)
(* PodManager.ready, DeploymentManager.ready up to the loop                *)
(***************************************************************************)
ready ==
    /\ ~IsEntity
    /\ mode = "direct" /\ pc = "idle" /\ nUse < MaxCalls
    /\ IF ~HasMetadata(model)
       THEN /\ Returns("ready", "none", "AttributeError")
            /\ readyRes' = "none"
            /\ waitOp' = "none" /\ inspected' = <<>>
            /\ UNCHANGED <<pc>>
       ELSE /\ pc' = "create_open"
            /\ waitOp' = "ready"
            /\ inspected' = <<>>
            /\ readyRes' = "waiting"
            /\ Returns("ready", "none", "none")
    /\ calls' = CallsBefore
    /\ UNCHANGED <<entityVars, manifest, mergeVars, model, srvVars, sub, delRes,
                   reqGone, bodyErr>>
    /\ nUse' = nUse + 1

(***************************************************************************)
(* Watch.stream, first iteration: the subscription opens with an ADDED     *)
(* event for every resource of the namespace                               *)
(***************************************************************************)
watch_open ==
    /\ pc \in {"create_open", "delete_open"}
    /\ LET present == {n \in Names : Exists(n)}
       IN  \E order \in [1..Cardinality(present) -> present] :
              /\ \A i, j \in DOMAIN order : i # j => order[i] # order[j]
              /\ sub' = [open |-> TRUE,
                         buf |-> [i \in DOMAIN order |-> Event("ADDED", Snapshot(order[i]))]]
    /\ pc' = IF pc = "create_open" THEN "create_wait" ELSE "delete_wait"
    /\ calls' = Append(calls, "watch")
    /\ UNCHANGED <<entityVars, manifest, mergeVars, model, srvVars, waitOp, inspected,
                   readyRes, delRes, resultVars, withVars>>

\* an __enter__ after which the with statement goes past its body
AfterReady_skips_body == IF mode = "with" THEN "with_exit" ELSE "idle"

\* where the end of a readiness wait leaves the caller
AfterReady == IF mode = "with" THEN "body" ELSE "idle"

(***************************************************************************)
(* One iteration of the loop of Pod.create, Deployment.create,             *)
(* PodManager.ready, DeploymentManager.ready                               *)
(***************************************************************************)
ready_loop ==
    /\ pc = "create_wait"
    /\ sub.buf # <<>>
    /\ LET e == Head(sub.buf)
           d == ReadyEvent(e, model)
       IN  /\ inspected' = Append(inspected, e)
           /\ IF d = "continue"
              THEN /\ sub' = [sub EXCEPT !.buf = Tail(@)]
                   /\ UNCHANGED <<pc, readyRes, lastOp, ret, exc>>
              ELSE /\ sub' = Closed
                   /\ readyRes' = d
                   /\ pc' = AfterReady
                   /\ Returns(waitOp, ReadyReturn(d), "none")
    /\ UNCHANGED <<entityVars, manifest, mergeVars, model, srvVars, waitOp, delRes,
                   reqGone, withVars, calls>>

\* the stream ends: the loop falls through
ready_loop_end ==
    /\ pc = "create_wait"
    /\ sub.buf = <<>>
    /\ sub' = Closed
    /\ readyRes' = "TimedOut"
    /\ pc' = AfterReady
    /\ Returns(waitOp, ReadyReturn("TimedOut"), "none")
    /\ UNCHANGED <<entityVars, manifest, mergeVars, model, srvVars, waitOp, inspected,
                   delRes, reqGone, withVars, calls>>

\* the error of the body, once a method invoked in the body has raised e
BodyErrAfter(e) == IF pc = "body" THEN e ELSE bodyErr

(***************************************************************************)
(* Pod.read, Deployment.read; PodManager.read, DeploymentManager.read      *)
(* return the response and keep self.pod                                   *)
(***************************************************************************)
read ==
    /\ MayCall("body")
    /\ mode = "with" => nUse < MaxUse
    /\ nUse' = nUse + 1
    /\ IF ~HasMetadata(model)
       THEN /\ Returns("read", "none", "AttributeError")
            /\ bodyErr' = BodyErrAfter("AttributeError")
            /\ pc' = AfterRaise
            /\ UNCHANGED model /\ calls' = CallsBefore
       ELSE /\ calls' = Append(CallsBefore, "read")
            /\ IF ~Exists(model.name)
               THEN /\ Returns("read", "none", "NotFoundError")
                    /\ bodyErr' = BodyErrAfter("NotFoundError")
                    /\ pc' = AfterRaise
                    /\ UNCHANGED model
               ELSE /\ model' = IF IsEntity
                                THEN [model EXCEPT !.uid = srv[model.name].uid]
                                ELSE model
                    /\ Returns("read", IF IsEntity THEN "None" ELSE "response", "none")
                    /\ UNCHANGED <<pc, bodyErr>>
    /\ UNCHANGED <<entityVars, manifest, mergeVars, srvVars, watchVars, reqGone>>

\* an update that resets the model when the call fails
update_resets_on_error ==
    /\ IsEntity
    /\ mode = "direct" /\ pc = "idle" /\ nUse < MaxCalls
    /\ IF ~HasMetadata(model)
       THEN /\ Returns("update", "none", "AttributeError")
            /\ UNCHANGED model /\ calls' = CallsBefore
       ELSE /\ calls' = Append(CallsBefore, "update")
            /\ IF ~Exists(model.name)
               THEN /\ Returns("update", "none", "NotFoundError")
                    /\ model' = EmptyModel
               ELSE /\ model' = [model EXCEPT !.uid = srv[model.name].uid]
                    /\ Returns("update", "None", "none")
    /\ UNCHANGED <<entityVars, pc, manifest, mergeVars, srvVars, watchVars, reqGone,
                   bodyErr>>
    /\ nUse' = nUse + 1

(***************************************************************************)
(* Pod.update, Deployment.update                                           *)
(***************************************************************************)
update ==
    /\ IsEntity
    /\ mode = "direct" /\ pc = "idle" /\ nUse < MaxCalls
    /\ IF ~HasMetadata(model)
       THEN /\ Returns("update", "none", "AttributeError")
            /\ UNCHANGED model /\ calls' = CallsBefore
       ELSE /\ calls' = Append(CallsBefore, "update")
            /\ IF ~Exists(model.name)
               THEN /\ Returns("update", "none", "NotFoundError")
                    /\ UNCHANGED model
               ELSE /\ model' = [model EXCEPT !.uid = srv[model.name].uid]
                    /\ Returns("update", "None", "none")
    /\ UNCHANGED <<entityVars, pc, manifest, mergeVars, srvVars, watchVars, reqGone,
                   bodyErr>>
    /\ nUse' = nUse + 1

\* the name under which a delete returns or raises
DeleteOp == IF mode = "with" THEN "__exit__" ELSE "delete"
\* where the end of a delete leaves the caller
AfterDelete == IF mode = "with" THEN "done" ELSE "idle"

(***************************************************************************)
(* Pod.delete, Deployment.delete up to the return of the delete call       *)
(***************************************************************************)
delete(wait_for_completion) ==
    /\ IsEntity
    /\ MayCall("with_exit")
    /\ mode = "with" => wait_for_completion
    /\ reqGone' = ~Exists(TargetName)
    /\ IF ~HasMetadata(model)
       THEN /\ lastOp' = DeleteOp /\ ret' = "none" /\ exc' = "AttributeError"
            /\ pc' = AfterRaise
            /\ delRes' = "none"
            /\ waitOp' = "none" /\ inspected' = <<>>
            /\ UNCHANGED model /\ calls' = CallsBefore
       ELSE /\ calls' = Append(CallsBefore, "delete")
            /\ IF ~Exists(model.name)
               THEN /\ lastOp' = DeleteOp /\ ret' = "none" /\ exc' = "NotFoundError"
                    /\ pc' = AfterRaise
                    /\ delRes' = "none"
                    /\ waitOp' = "none" /\ inspected' = <<>>
                    /\ UNCHANGED <<model>>
               ELSE IF wait_for_completion
               THEN /\ pc' = "delete_open"
                    /\ waitOp' = "delete"
                    /\ inspected' = <<>>
                    /\ delRes' = "waiting"
                    /\ lastOp' = DeleteOp /\ ret' = "none" /\ exc' = "none"
                    /\ UNCHANGED model
               ELSE /\ model' = EmptyModel
                    /\ pc' = "idle"
                    /\ lastOp' = DeleteOp /\ ret' = "True" /\ exc' = "none"
                    /\ delRes' = "none"
                    /\ waitOp' = "none" /\ inspected' = <<>>
    /\ UNCHANGED <<entityVars, manifest, mergeVars, srvVars, sub, readyRes, bodyErr>>
    /\ nUse' = IF mode = "direct" THEN nUse + 1 ELSE nUse

(***************************************************************************)
(* PodManager.delete(name, namespace), DeploymentManager.delete().  The    *)
(* caller of PodManager.delete names the resource; PodManager.__exit__     *)
(* and DeploymentManager.delete read the name from the held object.        *)
(***************************************************************************)
manager_delete ==
    /\ ~IsEntity
    /\ MayCall("with_exit")
    /\ reqGone' = ~Exists(TargetName)
    /\ LET fromObject == kind = "DeploymentManager" \/ mode = "with"
           n == IF fromObject THEN model.name ELSE TargetName
       IN  IF fromObject /\ ~HasMetadata(model)
           THEN /\ lastOp' = DeleteOp /\ ret' = "none" /\ exc' = "AttributeError"
                /\ pc' = AfterRaise
                /\ UNCHANGED model /\ calls' = CallsBefore
           ELSE /\ calls' = Append(CallsBefore, "delete")
                /\ IF ~Exists(n)
                   THEN /\ lastOp' = DeleteOp /\ ret' = "none" /\ exc' = "NotFoundError"
                        /\ pc' = AfterRaise
                        /\ UNCHANGED model
                   ELSE /\ model' = IF kind = "PodManager" THEN EmptyModel ELSE model
                        /\ pc' = AfterDelete
                        /\ lastOp' = DeleteOp
                        /\ ret' = IF kind = "PodManager" THEN "True" ELSE "response"
                        /\ exc' = IF mode = "with" THEN AfterExit(ExitReturn) ELSE "none"
    /\ delRes' = "none"
    /\ waitOp' = "none" /\ inspected' = <<>>
    /\ UNCHANGED <<entityVars, manifest, mergeVars, srvVars, sub,
                   readyRes, bodyErr>>
    /\ nUse' = IF mode = "direct" THEN nUse + 1 ELSE nUse

\* what the caller of a deletion wait that returned r gets: in a with
\* statement the return value of __exit__ and the error it leaves
DeleteReturn(r) == IF mode = "with" THEN ExitReturn ELSE r
DeleteRaise == IF mode = "with" THEN AfterExit(ExitReturn) ELSE "none"

(***************************************************************************)
(* One iteration of the loop of Pod.delete, Deployment.delete              *)
(***************************************************************************)
delete_loop ==
    /\ pc = "delete_wait"
    /\ sub.buf # <<>>
    /\ LET e == Head(sub.buf)
       IN  /\ inspected' = Append(inspected, e)
           /\ IF delete_event(e, model)
              THEN /\ sub' = Closed
                   /\ delRes' = "Deleted"
                   /\ model' = ModelAfterConfirmedDelete(model)
                   /\ pc' = AfterDelete
                   /\ Returns(DeleteOp, DeleteReturn("True"), DeleteRaise)
              ELSE /\ sub' = [sub EXCEPT !.buf = Tail(@)]
                   /\ UNCHANGED <<pc, delRes, model, lastOp, ret, exc>>
    /\ UNCHANGED <<entityVars, manifest, mergeVars, srvVars, waitOp, readyRes,
                   reqGone, withVars, calls>>

\* the stream ends: the loop falls through
delete_loop_end ==
    /\ pc = "delete_wait"
    /\ sub.buf = <<>>
    /\ sub' = Closed
    /\ delRes' = "TimedOut"
    /\ pc' = AfterDelete
    /\ Returns(DeleteOp, DeleteReturn("False"), DeleteRaise)
    /\ UNCHANGED <<entityVars, manifest, mergeVars, model, srvVars, waitOp, inspected,
                   readyRes, reqGone, withVars, calls>>

(***************************************************************************)
(* The with statement: __enter__, the body, __exit__                       *)
(***************************************************************************)
with_enter ==
    /\ mode = "with" /\ pc = "with_enter"
    /\ IF IsEntity THEN create(TRUE) ELSE manager_create

body_return ==
    /\ pc = "body"
    /\ pc' = "with_exit"
    /\ bodyErr' = "none"
    /\ UNCHANGED <<entityVars, manifest, mergeVars, model, srvVars, watchVars,
                   resultVars, nUse, calls>>

body_raise ==
    /\ pc = "body"
    /\ pc' = "with_exit"
    /\ bodyErr' = "BodyError"
    /\ UNCHANGED <<entityVars, manifest, mergeVars, model, srvVars, watchVars,
                   resultVars, nUse, calls>>

\* __exit__ that deletes only when the body returned
with_exit_unless_error ==
    /\ mode = "with" /\ pc = "with_exit"
    /\ IF bodyErr = "none"
       THEN IF IsEntity THEN delete(TRUE) ELSE manager_delete
       ELSE /\ pc' = "done"
            /\ Returns("__exit__", "None", bodyErr)
            /\ UNCHANGED <<entityVars, manifest, mergeVars, model, srvVars, watchVars,
                           reqGone, withVars, calls>>

with_exit ==
    /\ mode = "with" /\ pc = "with_exit"
    /\ IF IsEntity THEN delete(TRUE) ELSE manager_delete

(***************************************************************************)
(* The unconstrained stream of SpecWatch: any event of the namespace.      *)
(***************************************************************************)
StreamEvents ==
    {Event(t, [name |-> n, uid |-> IF n = OtherName THEN 1 ELSE 2,
               phase |-> st[1], available_replicas |-> st[2]]) :
        t \in EventTypes, n \in Names,
        st \in IF IsDeployment
               THEN {<<"None", Replicas - 1>>, <<"None", Replicas>>}
               ELSE {<<"Pending", 0>>, <<"Running", 0>>}}

StreamEvent(e) ==
    /\ sub.open
    /\ nEvents < MaxStream
    /\ nEvents' = nEvents + 1
    /\ sub' = [sub EXCEPT !.buf = Append(@, e)]
    /\ UNCHANGED <<entityVars, pc, manifest, mergeVars, model, srv, nextUid, waitOp,
                   inspected, readyRes, delRes, resultVars, withVars, calls>>

(***************************************************************************)
(* Specifications.                                                         *)
(***************************************************************************)
Next ==
    \/ \E body \in Bodies \cup {None}, pm \in Partials : Construct(body, pm)
    \/ \E body \in Bodies : ManagerConstruct(body)
    \/ \E w \in BOOLEAN : mode = "direct" /\ create(w)
    \/ mode = "direct" /\ manager_create
    \/ ready
    \/ watch_open
    \/ ready_loop
    \/ ready_loop_end
    \/ read
    \/ update
    \/ \E w \in BOOLEAN : mode = "direct" /\ delete(w)
    \/ mode = "direct" /\ manager_delete
    \/ delete_loop
    \/ delete_loop_end
    \/ with_enter
    \/ body_return
    \/ body_raise
    \/ with_exit
    \/ \E n \in Names : ServerProgress(n)
    \/ \E n \in Names : ServerRemove(n)
    \/ \E n \in Names : ExternalCreate(n)

Spec == Init /\ [][Next]_vars

InitWatch == Init /\ mode = "direct"

NextWatch ==
    \/ \E body \in Bodies \cup {None}, pm \in Partials : Construct(body, pm)
    \/ \E body \in Bodies : ManagerConstruct(body)
    \/ create(TRUE)
    \/ manager_create
    \/ ready
    \/ watch_open
    \/ ready_loop
    \/ ready_loop_end
    \/ \E e \in StreamEvents : StreamEvent(e)

SpecWatch == InitWatch /\ [][NextWatch]_vars

(***************************************************************************)
(* Vocabulary of the claims.                                               *)
(***************************************************************************)
\* inspected holds the events of a readiness wait
ReadinessWait == waitOp \in {"create", "ready"}
\* the event is about the resource the entity was built for
IdentityMatches(e) == e.object.name = TargetName
\* the readiness predicate: phase Running, or all replicas available
ReadyPredicate(e) ==
    IF IsDeployment
    THEN e.object.available_replicas = Replicas
    ELSE e.object.phase = "Running"
\* the readiness wait ended on the event it inspected last
ResolvedOnEvent == readyRes \in {"Ready", "Deleted"}
\* ret is the value the readiness wait returned
WaitReturned ==
    lastOp \in {"create", "ready"} /\ readyRes \in {"Ready", "Deleted", "TimedOut"}
LastInspected == inspected[Len(inspected)]

(***************************************************************************)
(* C1: in a readiness wait a DELETED event of the target resource resolves *)
(* the wait as Deleted, whatever snapshot the event carries: the DELETED   *)
(* test comes before the readiness predicate.                              *)
(***************************************************************************)
C1_DeletedResolvesDeleted ==
    (/\ ReadinessWait
     /\ Len(inspected) > 0
     /\ LastInspected.type = "DELETED"
     /\ IdentityMatches(LastInspected))
    => readyRes = "Deleted"

(***************************************************************************)
(* C2: a readiness wait resolves Ready on the first event of the stream    *)
(* that matches the target and satisfies the readiness predicate, and on   *)
(* no other event; an ADDED or MODIFIED event of the target that does not  *)
(* satisfy the predicate does not end the wait; once resolved the          *)
(* subscription is closed and no further event is inspected.               *)
(***************************************************************************)
C2_ReadyAtFirstMatch ==
    ReadinessWait =>
        /\ \A i \in 1..Len(inspected) :
              /\ (IdentityMatches(inspected[i]) /\ ReadyPredicate(inspected[i]))
                    <=> (i = Len(inspected) /\ readyRes = "Ready")
              /\ (/\ IdentityMatches(inspected[i])
                  /\ ~ReadyPredicate(inspected[i])
                  /\ inspected[i].type # "DELETED")
                    => ~(i = Len(inspected) /\ ResolvedOnEvent)
        /\ readyRes = "Ready" => ~sub.open

\* a wait has resolved Ready after passing over an event of the target that
\* did not satisfy the predicate
C2_Witness ==
    /\ ReadinessWait
    /\ readyRes = "Ready"
    /\ Len(inspected) >= 2
    /\ \E i \in 1..(Len(inspected) - 1) :
          /\ IdentityMatches(inspected[i])
          /\ ~ReadyPredicate(inspected[i])

(***************************************************************************)
(* C3: in a readiness wait an event of a resource other than the target    *)
(* never ends the wait, whatever its type.                                 *)
(***************************************************************************)
C3_ForeignEventsIgnored ==
    ReadinessWait =>
        \A i \in 1..Len(inspected) :
            ~IdentityMatches(inspected[i]) => ~(i = Len(inspected) /\ ResolvedOnEvent)

C5_DeleteIssuedOnExit ==
    pc = "done" => \E i \in DOMAIN calls : calls[i] = "delete"

\* a with statement has ended whose readiness wait did not end Ready and
\* whose body raised
C5_Witness ==
    /\ pc = "done"
    /\ bodyErr = "BodyError"
    /\ readyRes \in {"Deleted", "TimedOut"}

(***************************************************************************)
(* C6: when the with statement has ended, the error that reaches the       *)
(* caller is the error of the body (none if the body returned): __exit__   *)
(* neither swallows it nor replaces it by an error of the delete.          *)
(***************************************************************************)
C6_BodyErrorReachesCaller ==
    pc = "done" => exc = bodyErr

(***************************************************************************)
(* C7: a Pod or Deployment whose manifest, after the merge of the partial  *)
(* manifest, lacks a non-empty metadata.name or metadata.namespace is not  *)
(* constructed: the constructor raises, no typed model exists and no       *)
(* remote call is issued.                                                  *)
(***************************************************************************)
C7_InvalidManifestRejected ==
    (IsEntity /\ pc \notin {"new", "merge", "merge_failed"} /\ ~HasIdentity(manifest))
    => /\ pc = "invalid"
       /\ exc # "none"
       /\ model = NoModel
       /\ calls = <<>>

\* the constructor has rejected a manifest that names the resource but not
\* its namespace
C7_Witness ==
    /\ IsEntity
    /\ pc = "invalid"
    /\ exc = "Exception"
    /\ ManifestName(manifest) = TargetName
    /\ "namespace" \notin DOMAIN manifest.v["metadata"].v

(***************************************************************************)
(* C8: when delete has returned after its wait saw the DELETED event of    *)
(* the resource, the model is the empty default model.                     *)
(***************************************************************************)
C8_ModelResetOnConfirmedDelete ==
    (/\ IsEntity
     /\ pc \in {"idle", "done"}
     /\ lastOp \in {"delete", "__exit__"}
     /\ delRes = "Deleted")
    => model = EmptyModel

(***************************************************************************)
(* C9: a delete invoked on a Pod or Deployment whose resource is no longer *)
(* on the server fails with NotFoundError.                                 *)
(***************************************************************************)
C9_DeleteOfDeletedNotFound ==
    (IsEntity /\ pc = "idle" /\ lastOp = "delete" /\ reqGone)
    => exc = "NotFoundError"

(***************************************************************************)
(* C10: merging is idempotent: merging the same partial manifest into the  *)
(* result of a merge leaves the result as it is.                           *)
(***************************************************************************)
C10_MergeIdempotent ==
    Len(merged) = 2 => merged[2] = merged[1]

\* a partial manifest with a sequence under metadata.labels.app has been
\* merged twice into a manifest that contributed keys of its own
C10_Witness ==
    /\ Len(merged) = 2
    /\ merged[1] # partial
    /\ "metadata" \in DOMAIN partial.v
    /\ partial.v["metadata"].t = "dict"
    /\ "labels" \in DOMAIN partial.v["metadata"].v
    /\ partial.v["metadata"].v["labels"].t = "dict"
    /\ "app" \in DOMAIN partial.v["metadata"].v["labels"].v
    /\ partial.v["metadata"].v["labels"].v["app"].t = "list"
    /\ Len(partial.v["metadata"].v["labels"].v["app"].v) > 0

(***************************************************************************)
(* C11: in the readiness wait of Pod.create and Deployment.create an event *)
(* that carries the name of the entity and satisfies the readiness         *)
(* predicate resolves the wait Ready even when its uid differs from the    *)
(* uid the create call returned: events are matched by name only.          *)
(***************************************************************************)
\* the wait of create inspected last an event of the entity's name that
\* satisfies the predicate and belongs to another object than the model's
StaleEventInspected ==
    /\ IsEntity
    /\ waitOp = "create"
    /\ Len(inspected) > 0
    /\ HasMetadata(model)
    /\ LastInspected.object.name = model.name
    /\ LastInspected.object.uid # model.uid
    /\ ReadyPredicate(LastInspected)

C11_StaleSuccessByName ==
    StaleEventInspected =>
        /\ readyRes = "Ready"
        /\ lastOp = "create" => ret = "True"

\* create has returned True on the event of a resource that was recreated
\* under the entity's name after the one it created was removed
C11_Witness ==
    /\ StaleEventInspected
    /\ mode = "direct"
    /\ lastOp = "create"
    /\ readyRes = "Ready"
    /\ ret = "True"
    /\ srv[model.name].uid = LastInspected.object.uid
    /\ model.uid # 0

(***************************************************************************)
(* C12: Pod.delete and Deployment.delete with wait_for_completion=True     *)
(* return True only on a DELETED event whose uid is the uid held in the    *)
(* model; every other event is passed over, and when the stream ends       *)
(* first delete returns False.                                             *)
(***************************************************************************)
\* the event at the head of the stream is the DELETED event of the object
\* the model holds
OwnDeletedAtHead ==
    /\ sub.buf # <<>>
    /\ Head(sub.buf).type = "DELETED"
    /\ Head(sub.buf).object.uid = model.uid

C12_DeleteTrueOnlyOnOwnDeleted ==
    [][(IsEntity /\ pc = "delete_wait") =>
          /\ pc' # "delete_wait" =>
                /\ delRes' \in {"Deleted", "TimedOut"}
                /\ delRes' = "Deleted" <=> OwnDeletedAtHead
                /\ delRes' = "TimedOut" <=> sub.buf = <<>>
                /\ mode = "direct" =>
                      ret' = IF delRes' = "Deleted" THEN "True" ELSE "False"
          /\ (pc' = "delete_wait" /\ inspected' # inspected) =>
                /\ ~OwnDeletedAtHead
                /\ delRes' = "waiting"]_vars

\* delete has returned True after passing over the DELETED event of another
\* object
C12_Witness ==
    /\ IsEntity
    /\ mode = "direct"
    /\ lastOp = "delete"
    /\ waitOp = "delete"
    /\ delRes = "Deleted"
    /\ ret = "True"
    /\ \E i \in 1..(Len(inspected) - 1) : inspected[i].type = "DELETED"
    /\ LastInspected.type = "DELETED"
    /\ LastInspected.object.name = TargetName

(***************************************************************************)
(* C13: once Pod.delete(wait_for_completion=True) has had its delete call  *)
(* accepted, the DELETED event of the pod is not missed: whenever the      *)
(* server removes the pod the model holds, the event reaches the           *)
(* subscription of the deletion wait, also when the removal falls between  *)
(* the delete call and the opening of the subscription.                    *)
(***************************************************************************)
\* Pod.delete is between its accepted delete call and the end of its wait
InDeletionWait == kind = "Pod" /\ pc \in {"delete_open", "delete_wait"}

\* this step removes from the server the pod the model holds
OwnPodRemoved ==
    /\ HasMetadata(model)
    /\ srv[model.name].uid = model.uid
    /\ srv'[model.name] = Absent

C13_DeletedEventNotMissed ==
    [][(InDeletionWait /\ OwnPodRemoved) =>
          /\ sub'.open
          /\ sub'.buf # <<>>
          /\ sub'.buf[Len(sub'.buf)] = Event("DELETED", Snapshot(model.name))]_vars

(***************************************************************************)
(* C14: when the server rejects the create, read, update or delete call of *)
(* a Pod or Deployment, the method raises the error of the call, the model *)
(* keeps the value it had before the call, and no watch subscription is    *)
(* opened.                                                                 *)
(***************************************************************************)
\* this step is a method invoked by the caller or by the with statement
CallStep ==
    \/ nUse' # nUse
    \/ pc \in {"with_enter", "with_exit"} /\ pc' # pc

\* the server rejects the call of method op on the model as it is
Rejected(op) ==
    IF op = "create"
    THEN ~Creatable(model.name, model.replicas)
    ELSE ~Exists(model.name)

\* the error of the rejected call
ErrorOf(op) == IF op = "create" THEN "ApiError" ELSE "NotFoundError"

C14_FailedCallLeavesModel ==
    [][(/\ IsEntity
        /\ CallStep
        /\ HasMetadata(model)
        /\ lastOp' \in {"create", "read", "update", "delete", "__exit__"}
        /\ Rejected(lastOp')) =>
          /\ exc' = ErrorOf(lastOp')
          /\ ret' = "none"
          /\ model' = model
          /\ sub' = sub
          /\ ~sub'.open
          /\ pc' \notin {"create_open", "create_wait", "delete_open", "delete_wait"}]_vars

\* an update has failed on an entity whose resource the server removed, and
\* the model still holds the removed resource
C14_Witness ==
    /\ IsEntity
    /\ mode = "direct"
    /\ lastOp = "update"
    /\ exc = "NotFoundError"
    /\ HasMetadata(model)
    /\ model.uid # 0
    /\ ~Exists(model.name)
    /\ pc = "idle"
    /\ ~sub.open

(***************************************************************************)
(* C15: in a with statement the steps come in the order create call,       *)
(* readiness wait, body, delete call, deletion wait: the body is entered   *)
(* only after the readiness wait has resolved, and it is entered whatever  *)
(* the outcome was; the delete call is issued only after the body has been *)
(* left, and the deletion wait follows it.                                 *)
(***************************************************************************)
Outcomes == {"Ready", "Deleted", "TimedOut"}
HasCall(c) == \E i \in DOMAIN calls : calls[i] = c
\* the with statement is past its body
BodyLeft == pc \in {"with_exit", "delete_open", "delete_wait", "done"}

WithOrder ==
    mode = "with" =>
        /\ pc = "body" => (readyRes \in Outcomes /\ ~HasCall("delete"))
        /\ (pc = "body" \/ BodyLeft) =>
              /\ readyRes \in Outcomes
              /\ Len(calls) >= 2 /\ calls[1] = "create" /\ calls[2] = "watch"
        /\ readyRes \in Outcomes => (pc = "body" \/ BodyLeft)
        /\ HasCall("delete") => pc \in {"delete_open", "delete_wait", "done"}
        /\ \A i \in DOMAIN calls :
              /\ calls[i] = "create" => i = 1
              /\ calls[i] = "delete" =>
                    (i > 2 /\ \A j \in (i + 1)..Len(calls) : calls[j] = "watch")
              /\ calls[i] = "watch" => (i = 2 \/ calls[i - 1] = "delete")
        /\ delRes \in {"waiting", "Deleted", "TimedOut"} => HasCall("delete")

C15_WithStepsInOrder ==
    /\ []WithOrder
    /\ [][(mode = "with" /\ pc = "create_wait" /\ readyRes' \in Outcomes)
             => pc' = "body"]_vars

\* a with statement has run to its end, through the body and the deletion
\* wait, after a readiness wait that resolved Deleted
C15_Witness ==
    /\ mode = "with"
    /\ pc = "done"
    /\ readyRes = "Deleted"
    /\ calls[Len(calls)] = "watch"
    /\ HasCall("delete")
    /\ delRes \in {"Deleted", "TimedOut"}

====
